---- MODULE Spec2Model ----
(***************************************************************************)
(* Credential store (auth/user_manager.py) and session gate                *)
(* (auth/auth_ui.py) of the Smart Campus Dashboard.                        *)
(*                                                                         *)
(* Python values are represented as follows:                               *)
(*   None            the empty tuple <<>>                                  *)
(*   an optional x   <<>> or <<x>>                                         *)
(*   a dict          a function whose domain is the set of keys            *)
(*   a list          a sequence                                            *)
(*   a (a, b) result the tuple <<a, b>>                                    *)
(***************************************************************************)
EXTENDS Integers, Sequences, FiniteSets, TLC

VARIABLES
    users,      \* UserManager.users: username -> account dict
    file,       \* the users.json backing file
    session,    \* st.session_state: authenticated, user_info, username
    now,        \* the last value read from the wall clock
    last,       \* the last call observed at the boundary: op, args, ret
    environ,    \* os.environ when config.py was imported by this process
    other       \* the users mapping of a second UserManager over the same
                \* file, None while there is no second instance

vars == <<users, file, session, now, last, environ, other>>

-----------------------------------------------------------------------------
(* Bounds of the model *)

\* the wall clock runs from 1 to MaxClock
MaxClock == 2

\* a feed holds at most MaxRows rows
MaxRows == 2

-----------------------------------------------------------------------------
(* Python helpers *)

None == <<>>
Some(x) == <<x>>

EmptyDict == [k \in {} |-> None]

\* d.get(key, default)
Get(d, key, default) == IF key \in DOMAIN d THEN d[key] ELSE default

\* x in lst
In(x, lst) == \E i \in 1..Len(lst) : lst[i] = x

\* d[key] = value on a dict (insert or overwrite)
SetItem(d, key, value) ==
    [k \in DOMAIN d \cup {key} |-> IF k = key THEN value ELSE d[k]]

\* del d[key]
DelItem(d, key) == [k \in DOMAIN d \ {key} |-> d[k]]

\* bool(s) of a str: the empty string is falsy
Truthy(s) == s # ""

-----------------------------------------------------------------------------
(* Configuration (config.py), computed from the environment at import *)

\* get_env_var(key, default): os.getenv(key, default)
get_env_var(key, default) == Get(environ, key, default)

\* int(s) of the decimal strings the environment is given
int(s) == CASE s = "300" -> 300 [] s = "600" -> 600 [] s = "900" -> 900

APP_CONFIG ==
    [ data_freshness_threshold |->
          IF "DATA_FRESHNESS_THRESHOLD" \in DOMAIN environ
          THEN int(environ["DATA_FRESHNESS_THRESHOLD"])
          ELSE 600,
      default_admin_password   |-> get_env_var("DEFAULT_ADMIN_PASSWORD", "cisco1234") ]

USER_CONFIG ==
    [ password_salt       |-> get_env_var("PASSWORD_SALT", "smart_campus_salt"),
      default_permissions |-> <<"dashboard", "sensors">> ]

SECURITY_CONFIG ==
    [ enable_rate_limiting |-> TRUE,
      enable_audit_log     |-> TRUE ]

-----------------------------------------------------------------------------
(* Input domains *)

UserNames == {"admin", "alice"}

Passwords == {"cisco6776", "pw1"}
\* what can be typed into a form field: a password or nothing
FormInputs == Passwords \cup {""}

Roles == {"user", "admin", "viewer"}

AdminPerms  == <<"dashboard", "user_management", "all_sensors", "sensors">>
ViewerPerms == <<"dashboard", "sensors">>
UserPerms   == <<"dashboard", "sensors", "all_sensors">>

\* what direct calls of the UserManager pass: add_user gets one of two
\* <<role, permissions, created_by>>, update_user any of a password and one
\* <<role, permissions>>
AddPayloads == { <<"viewer", ViewerPerms, "admin">>,
                 <<"user", <<"all_sensors">>, "alice">> }
UpdatePayloads == { <<"admin", AdminPerms>> }

PermissionTags == {"dashboard", "sensors", "all_sensors", "user_management"}

-----------------------------------------------------------------------------
(* UserManager *)

\* datetime.now().isoformat() of clock value t
isoformat(t) == <<"iso", t>>

\* hashlib.sha256(f"{password}{salt}".encode()).hexdigest(): the digest is
\* modelled as collision free, a value determined by the hashed text
sha256(password, salt) == <<"sha256", password, salt>>

hash_password(password) ==
    sha256(password, Get(SECURITY_CONFIG, "password_salt", "smart_campus_salt"))

\* the backing file: absent, or present with text that is either a JSON
\* document (doc) or malformed; writable tells whether open(users_file, "w")
\* succeeds
AbsentFile    == [exists |-> FALSE, wellformed |-> FALSE, doc |-> EmptyDict, writable |-> TRUE]
MalformedFile == [exists |-> TRUE,  wellformed |-> FALSE, doc |-> EmptyDict, writable |-> TRUE]
JsonFile(d)   == [exists |-> TRUE,  wellformed |-> TRUE,  doc |-> d, writable |-> TRUE]

\* save_users that reads the file again and keeps the accounts it holds that
\* the mapping lacks
save_users_merging(U, f) ==
    IF f.writable
    THEN IF f.exists /\ f.wellformed
         THEN JsonFile([u \in DOMAIN f.doc \cup DOMAIN U |->
                           IF u \in DOMAIN U THEN U[u] ELSE f.doc[u]])
         ELSE JsonFile(U)
    ELSE f

\* save_users: rewrite the whole file from the in-memory mapping; when the
\* file cannot be opened for writing the exception is caught, an error is
\* displayed and the file stays as it was
save_users(U, f) == IF f.writable THEN JsonFile(U) ELSE f

DefaultAdmin(t) ==
    [ password    |-> hash_password(Get(USER_CONFIG, "default_admin_password", "cisco6776")),
      role        |-> "admin",
      permissions |-> AdminPerms,
      created_by  |-> "system",
      created_at  |-> isoformat(t),
      active      |-> TRUE,
      last_login  |-> None ]

\* load_users putting the default admin back on every load
load_users_reseeding(f, t) ==
    IF f.exists
    THEN IF f.wellformed
         THEN LET U == SetItem(f.doc, "admin", DefaultAdmin(t))
              IN  [users |-> U, file |-> save_users(U, f)]
         ELSE [users |-> EmptyDict, file |-> f]
    ELSE LET U == [k \in {"admin"} |-> DefaultAdmin(t)]
         IN  [users |-> U, file |-> save_users(U, f)]

\* load_users falling back to the default admin when the load fails
load_users_admin_on_error(f, t) ==
    IF f.exists
    THEN IF f.wellformed
         THEN [users |-> f.doc, file |-> f]
         ELSE [users |-> [k \in {"admin"} |-> DefaultAdmin(t)], file |-> f]
    ELSE LET U == [k \in {"admin"} |-> DefaultAdmin(t)]
         IN  [users |-> U, file |-> save_users(U, f)]

\* load_users with the clock reading t: the mapping held afterwards and the
\* file afterwards
load_users(f, t) ==
    IF f.exists
    THEN IF f.wellformed
         THEN [users |-> f.doc, file |-> f]
         ELSE [users |-> EmptyDict, file |-> f]
    ELSE LET U == [k \in {"admin"} |-> DefaultAdmin(t)]
         IN  [users |-> U, file |-> save_users(U, f)]

\* authenticate_user without the test of the active flag
authenticate_user_any_status(U, f, username, password, t) ==
    IF username \in DOMAIN U
       /\ U[username]["password"] = hash_password(password)
    THEN LET user == [U[username] EXCEPT !["last_login"] = isoformat(t)]
             U2   == [U EXCEPT ![username] = user]
         IN  [users |-> U2, file |-> save_users(U2, f),
              ret |-> <<TRUE, Some(user)>>]
    ELSE [users |-> U, file |-> f, ret |-> <<FALSE, None>>]

\* authenticate_user without the save_users() after the last_login update
authenticate_user_unsaved(U, f, username, password, t) ==
    IF username \in DOMAIN U
       /\ U[username]["active"]
       /\ U[username]["password"] = hash_password(password)
    THEN LET user == [U[username] EXCEPT !["last_login"] = isoformat(t)]
             U2   == [U EXCEPT ![username] = user]
         IN  [users |-> U2, file |-> f, ret |-> <<TRUE, Some(user)>>]
    ELSE [users |-> U, file |-> f, ret |-> <<FALSE, None>>]

\* authenticate_user: the mapping and file afterwards and the returned pair
authenticate_user(U, f, username, password, t) ==
    IF username \in DOMAIN U
       /\ U[username]["active"]
       /\ U[username]["password"] = hash_password(password)
    THEN LET user == [U[username] EXCEPT !["last_login"] = isoformat(t)]
             U2   == [U EXCEPT ![username] = user]
         IN  [users |-> U2, file |-> save_users(U2, f),
              ret |-> <<TRUE, Some(user)>>]
    ELSE [users |-> U, file |-> f, ret |-> <<FALSE, None>>]

\* add_user without the test for a stored username
add_user_overwriting(U, f, username, password, role, permissions, created_by, t) ==
    LET rec == [ password    |-> hash_password(password),
                 role        |-> role,
                 permissions |-> permissions,
                 created_by  |-> created_by,
                 created_at  |-> isoformat(t),
                 active      |-> TRUE,
                 last_login  |-> None ]
        U2  == SetItem(U, username, rec)
    IN  [users |-> U2, file |-> save_users(U2, f),
         ret |-> <<TRUE, "User created successfully">>]

add_user(U, f, username, password, role, permissions, created_by, t) ==
    IF username \in DOMAIN U
    THEN [users |-> U, file |-> f,
          ret |-> <<FALSE, "User already exists">>]
    ELSE LET rec == [ password    |-> hash_password(password),
                      role        |-> role,
                      permissions |-> permissions,
                      created_by  |-> created_by,
                      created_at  |-> isoformat(t),
                      active      |-> TRUE,
                      last_login  |-> None ]
             U2  == SetItem(U, username, rec)
         IN  [users |-> U2, file |-> save_users(U2, f),
              ret |-> <<TRUE, "User created successfully">>]

\* update_user leaving the stored hash alone when a password is supplied
update_user_keeping_hash(U, f, username, kwargs) ==
    IF username \notin DOMAIN U
    THEN [users |-> U, file |-> f, ret |-> <<FALSE, "User not found">>]
    ELSE LET old == U[username]
             rec == [k \in DOMAIN old \cup DOMAIN kwargs |->
                        IF k \in DOMAIN kwargs /\ k # "password"
                        THEN kwargs[k]
                        ELSE old[k]]
             U2  == [U EXCEPT ![username] = rec]
         IN  [users |-> U2, file |-> save_users(U2, f),
              ret |-> <<TRUE, "User updated successfully">>]

\* update_user(username, **kwargs): kwargs is a dict of the supplied fields
update_user(U, f, username, kwargs) ==
    IF username \notin DOMAIN U
    THEN [users |-> U, file |-> f,
          ret |-> <<FALSE, "User not found">>]
    ELSE LET old == U[username]
             rec == [k \in DOMAIN old \cup DOMAIN kwargs |->
                        IF k \in DOMAIN kwargs
                        THEN IF k = "password"
                             THEN hash_password(kwargs[k])
                             ELSE kwargs[k]
                        ELSE old[k]]
             U2  == [U EXCEPT ![username] = rec]
         IN  [users |-> U2, file |-> save_users(U2, f),
              ret |-> <<TRUE, "User updated successfully">>]

\* delete_user without the test username == requester
delete_user_self_allowed(U, f, username, requester) ==
    IF username \notin DOMAIN U
    THEN [users |-> U, file |-> f, ret |-> <<FALSE, "User not found">>]
    ELSE IF username = "admin"
    THEN [users |-> U, file |-> f, ret |-> <<FALSE, "Cannot delete admin user">>]
    ELSE LET U2 == DelItem(U, username)
         IN  [users |-> U2, file |-> save_users(U2, f),
              ret |-> <<TRUE, "User deleted successfully">>]

delete_user(U, f, username, requester) ==
    IF username \notin DOMAIN U
    THEN [users |-> U, file |-> f,
          ret |-> <<FALSE, "User not found">>]
    ELSE IF username = "admin"
    THEN [users |-> U, file |-> f,
          ret |-> <<FALSE, "Cannot delete admin user">>]
    ELSE IF username = requester
    THEN [users |-> U, file |-> f,
          ret |-> <<FALSE, "Cannot delete your own account">>]
    ELSE LET U2 == DelItem(U, username)
         IN  [users |-> U2, file |-> save_users(U2, f),
              ret |-> <<TRUE, "User deleted successfully">>]

\* deactivate_user without the test username != "admin"
deactivate_user_admin_too(U, f, username) ==
    IF username \in DOMAIN U
    THEN LET U2 == [U EXCEPT ![username]["active"] = FALSE]
         IN  [users |-> U2, file |-> save_users(U2, f),
              ret |-> <<TRUE, "User deactivated">>]
    ELSE [users |-> U, file |-> f,
          ret |-> <<FALSE, "Cannot deactivate admin or user not found">>]

deactivate_user(U, f, username) ==
    IF username \in DOMAIN U /\ username # "admin"
    THEN LET U2 == [U EXCEPT ![username]["active"] = FALSE]
         IN  [users |-> U2, file |-> save_users(U2, f),
              ret |-> <<TRUE, "User deactivated">>]
    ELSE [users |-> U, file |-> f,
          ret |-> <<FALSE, "Cannot deactivate admin or user not found">>]

\* activate_user without the save_users() after setting the flag
activate_user_unsaved(U, f, username) ==
    IF username \in DOMAIN U
    THEN [users |-> [U EXCEPT ![username]["active"] = TRUE], file |-> f,
          ret |-> <<TRUE, "User activated">>]
    ELSE [users |-> U, file |-> f, ret |-> <<FALSE, "User not found">>]

activate_user(U, f, username) ==
    IF username \in DOMAIN U
    THEN LET U2 == [U EXCEPT ![username]["active"] = TRUE]
         IN  [users |-> U2, file |-> save_users(U2, f),
              ret |-> <<TRUE, "User activated">>]
    ELSE [users |-> U, file |-> f,
          ret |-> <<FALSE, "User not found">>]

\* UserManager.check_permission(username, permission)
UserManager_check_permission(U, username, permission) ==
    IF username \notin DOMAIN U
    THEN FALSE
    ELSE LET user_permissions == Get(U[username], "permissions", <<>>)
         IN  In(permission, user_permissions) \/ In("all_sensors", user_permissions)

-----------------------------------------------------------------------------
(* Session state (st.session_state) *)

\* user_info holds None or a reference to an account dict.  <<"ref", u>> is
\* the dict that users[u] currently holds (authenticate_user returns that
\* object, so later in-place changes show through it); <<"obj", d>> is a
\* dict no longer held by the mapping, with value d.
\* confirm_delete is the set of usernames u whose confirm_delete_{u} key is
\* set.
EmptySession ==
    [authenticated |-> FALSE, user_info |-> None, username |-> None,
     confirm_delete |-> {}]

Deref(U, ref) == IF ref[1] = "ref" THEN U[ref[2]] ELSE ref[2]

\* Unlink that logs the session of the dropped account out
Unlink_logging_out(U, s, username) ==
    IF s.user_info # None /\ s.user_info[1] = "ref" /\ s.user_info[2] = username
    THEN [s EXCEPT !.authenticated = FALSE, !.user_info = None,
                   !.username = None]
    ELSE s

\* the session after the mapping dropped the dict of `username`
Unlink(U, s, username) ==
    IF s.user_info # None /\ s.user_info[1] = "ref" /\ s.user_info[2] = username
    THEN [s EXCEPT !.user_info = <<"obj", U[username]>>]
    ELSE s

\* the session after the mapping was replaced by freshly loaded dicts
UnlinkAll(U, s) ==
    IF s.user_info # None /\ s.user_info[1] = "ref"
    THEN [s EXCEPT !.user_info = <<"obj", U[s.user_info[2]]>>]
    ELSE s

\* check_permission without the all_sensors clause
check_permission_exact(U, s, permission) ==
    IF ~ s.authenticated
    THEN FALSE
    ELSE In(permission, Get(Deref(U, s.user_info), "permissions", <<>>))

\* auth_ui.check_permission(permission)
check_permission(U, s, permission) ==
    IF ~ s.authenticated
    THEN FALSE
    ELSE LET user_permissions == Get(Deref(U, s.user_info), "permissions", <<>>)
         IN  In(permission, user_permissions) \/ In("all_sensors", user_permissions)

-----------------------------------------------------------------------------
(* Steps *)

\* one call returns: r is the result of a UserManager operation, s the
\* session and l the observation afterwards
Commit(r, s, l) ==
    /\ users'   = r.users
    /\ file'    = r.file
    /\ session' = s
    /\ last'    = l
    /\ UNCHANGED <<now, environ, other>>

Observe(op, args, ret) == [op |-> op, args |-> args, ret |-> ret]

NoArgs == [username |-> ""]


\* the process starts with environment env: config.py is imported, then
\* UserManager.__init__ runs over the backing file f, in a new session
InitIn(f, env) ==
    /\ environ = env
    /\ now     = 1
    /\ LET r == load_users(f, 1)
       IN  /\ users = r.users
           /\ file  = r.file
    /\ session = EmptySession
    /\ other   = None
    /\ last    = Observe("UserManager", NoArgs, <<TRUE, "">>)

\* no environment variable is set
InitFrom(f) == InitIn(f, EmptyDict)

\* a first run: there is no backing file yet
Init == InitFrom(AbsentFile)

\* a run that finds a backing file holding an empty mapping
InitEmptyFile == InitFrom(JsonFile(EmptyDict))

\* a run that finds a backing file json.load cannot parse
InitMalformedFile == InitFrom(MalformedFile)

\* a first run wrote the file, which then became read-only: every later
\* open(users_file, "w") raises
InitReadOnly ==
    /\ environ = EmptyDict
    /\ now     = 1
    /\ LET r == load_users(AbsentFile, 1)
       IN  /\ users = r.users
           /\ file  = [r.file EXCEPT !.writable = FALSE]
    /\ session = EmptySession
    /\ other   = None
    /\ last    = Observe("UserManager", NoArgs, <<TRUE, "">>)

\* time passes
Tick ==
    /\ now < MaxClock
    /\ now' = now + 1
    /\ last' = Observe("tick", NoArgs, <<TRUE, "">>)
    /\ UNCHANGED <<users, file, session, environ, other>>

\* a new UserManager over the same file (process restart or script rerun)
Construct ==
    LET r == load_users(file, now)
    IN  Commit(r, UnlinkAll(users, session),
               Observe("UserManager", NoArgs, <<TRUE, "">>))

AuthenticateUser(username, password) ==
    LET r == authenticate_user(users, file, username, password, now)
    IN  Commit(r, session,
               Observe("authenticate_user",
                       [username |-> username, password |-> password], r.ret))

AddUser(username, password, role, permissions, created_by) ==
    LET r == add_user(users, file, username, password, role, permissions,
                      created_by, now)
    IN  Commit(r, session,
               Observe("add_user",
                       [username |-> username, password |-> password,
                        role |-> role, permissions |-> permissions,
                        created_by |-> created_by], r.ret))

UpdateUser(username, kwargs) ==
    LET r == update_user(users, file, username, kwargs)
    IN  Commit(r, session,
               Observe("update_user",
                       [username |-> username, kwargs |-> kwargs], r.ret))

DeleteUser(username, requester) ==
    LET r == delete_user(users, file, username, requester)
    IN  Commit(r, IF r.ret[1] THEN Unlink(users, session, username) ELSE session,
               Observe("delete_user",
                       [username |-> username, requester |-> requester], r.ret))

DeactivateUser(username) ==
    LET r == deactivate_user(users, file, username)
    IN  Commit(r, session,
               Observe("deactivate_user", [username |-> username], r.ret))

ActivateUser(username) ==
    LET r == activate_user(users, file, username)
    IN  Commit(r, session,
               Observe("activate_user", [username |-> username], r.ret))

\* an argument that may be left out: None or Some(x) for x in S
Optional(S) == {None} \cup {Some(x) : x \in S}

\* the keyword arguments update_user is called with: any of password, role
\* and permissions, each given as an optional value
Kwargs(password, role, permissions) ==
    [k \in {x \in {"password"} : password # None}
          \cup {x \in {"role"} : role # None}
          \cup {x \in {"permissions"} : permissions # None} |->
        CASE k = "password"    -> password[1]
          [] k = "role"        -> role[1]
          [] k = "permissions" -> permissions[1]]

\* the kwargs of a direct call: an optional password and an optional
\* <<role, permissions>>
CallKwargs(password, rp) ==
    IF rp = None
    THEN Kwargs(password, None, None)
    ELSE Kwargs(password, Some(rp[1][1]), Some(rp[1][2]))

Next ==
    \/ Tick
    \/ Construct
    \/ \E u \in UserNames, p \in Passwords : AuthenticateUser(u, p)
    \/ \E u \in UserNames, p \in Passwords, a \in AddPayloads :
          AddUser(u, p, a[1], a[2], a[3])
    \/ \E u \in UserNames, p \in Optional(Passwords),
          rp \in Optional(UpdatePayloads) : UpdateUser(u, CallKwargs(p, rp))
    \/ \E u \in UserNames, q \in UserNames : DeleteUser(u, q)
    \/ \E u \in UserNames : DeactivateUser(u)
    \/ \E u \in UserNames : ActivateUser(u)

-----------------------------------------------------------------------------
(* The pages of auth_ui.py, one session *)

\* login_submitted with a message of its own for an inactive account
login_submitted_telling(U, f, s, username, password, t) ==
    IF Truthy(username) /\ Truthy(password)
    THEN LET r == authenticate_user(U, f, username, password, t)
         IN  IF r.ret[1]
             THEN [users |-> r.users, file |-> r.file,
                   session |-> [s EXCEPT !.authenticated = TRUE,
                                         !.user_info = <<"ref", username>>,
                                         !.username = Some(username)],
                   ret |-> <<TRUE, "Welcome", r.ret>>]
             ELSE [users |-> r.users, file |-> r.file, session |-> s,
                   ret |-> <<FALSE,
                             IF username \in DOMAIN U /\ ~ U[username]["active"]
                             THEN "Account is inactive"
                             ELSE "Invalid credentials or inactive account",
                             r.ret>>]
    ELSE [users |-> U, file |-> f, session |-> s,
          ret |-> <<FALSE, "Please enter both username and password", None>>]

\* login_submitted marking the session authenticated before the credentials
\* are verified
login_submitted_marking_first(U, f, s, username, password, t) ==
    IF Truthy(username) /\ Truthy(password)
    THEN LET r == authenticate_user(U, f, username, password, t)
             s1 == [s EXCEPT !.authenticated = TRUE]
         IN  IF r.ret[1]
             THEN [users |-> r.users, file |-> r.file,
                   session |-> [s1 EXCEPT !.user_info = <<"ref", username>>,
                                          !.username = Some(username)],
                   ret |-> <<TRUE, "Welcome", r.ret>>]
             ELSE [users |-> r.users, file |-> r.file, session |-> s1,
                   ret |-> <<FALSE, "Invalid credentials or inactive account", r.ret>>]
    ELSE [users |-> U, file |-> f, session |-> s,
          ret |-> <<FALSE, "Please enter both username and password", None>>]

\* login_submitted that does not store the username in the session
login_submitted_without_username(U, f, s, username, password, t) ==
    IF Truthy(username) /\ Truthy(password)
    THEN LET r == authenticate_user(U, f, username, password, t)
         IN  IF r.ret[1]
             THEN [users |-> r.users, file |-> r.file,
                   session |-> [s EXCEPT !.authenticated = TRUE,
                                         !.user_info = <<"ref", username>>],
                   ret |-> <<TRUE, "Welcome", r.ret>>]
             ELSE [users |-> r.users, file |-> r.file, session |-> s,
                   ret |-> <<FALSE, "Invalid credentials or inactive account", r.ret>>]
    ELSE [users |-> U, file |-> f, session |-> s,
          ret |-> <<FALSE, "Please enter both username and password", None>>]

\* render_login_form, the login form submitted: the UserManager result, the
\* session afterwards and what the form reports (the pair authenticate_user
\* returned, None when it was not called, and the message shown)
login_submitted(U, f, s, username, password, t) ==
    IF Truthy(username) /\ Truthy(password)
    THEN LET r == authenticate_user(U, f, username, password, t)
         IN  IF r.ret[1]
             THEN [users |-> r.users, file |-> r.file,
                   session |-> [s EXCEPT !.authenticated = TRUE,
                                         !.user_info = <<"ref", username>>,
                                         !.username = Some(username)],
                   ret |-> <<TRUE, "Welcome", r.ret>>]
             ELSE [users |-> r.users, file |-> r.file, session |-> s,
                   ret |-> <<FALSE, "Invalid credentials or inactive account", r.ret>>]
    ELSE [users |-> U, file |-> f, session |-> s,
          ret |-> <<FALSE, "Please enter both username and password", None>>]

\* logout_user that keeps the account record in the session
logout_user_keeping_record(s) ==
    [s EXCEPT !.authenticated = FALSE, !.username = None]

\* render_login_form.logout_user
logout_user(s) ==
    [s EXCEPT !.authenticated = FALSE, !.user_info = None, !.username = None]

\* the guard refusing only a session without an account record
access_denied_without_role(U, s) == s.user_info = None

\* render_user_management: the guard of the page
access_denied(U, s) ==
    IF s.user_info = None
    THEN TRUE
    ELSE Get(Deref(U, s.user_info), "role", "") # "admin"

\* the permissions list with user_management granted to every role
form_permissions_any_role(new_role, perm_dashboard, perm_sensors, perm_user_mgmt, perm_all_sensors) ==
    (IF perm_dashboard THEN <<"dashboard">> ELSE <<>>)
    \o (IF perm_sensors THEN <<"sensors">> ELSE <<>>)
    \o (IF perm_user_mgmt THEN <<"user_management">> ELSE <<>>)
    \o (IF perm_all_sensors THEN <<"all_sensors">> ELSE <<>>)

\* _render_add_user: the permissions list built from the four checkboxes
form_permissions(new_role, perm_dashboard, perm_sensors, perm_user_mgmt, perm_all_sensors) ==
    (IF perm_dashboard THEN <<"dashboard">> ELSE <<>>)
    \o (IF perm_sensors THEN <<"sensors">> ELSE <<>>)
    \o (IF perm_user_mgmt /\ new_role = "admin" THEN <<"user_management">> ELSE <<>>)
    \o (IF perm_all_sensors THEN <<"all_sensors">> ELSE <<>>)

\* _render_add_user, the form submitted; boxes is the tuple of the four
\* checkboxes
add_user_submitted(U, f, s, new_username, new_password, new_role, boxes, t) ==
    IF Truthy(new_username) /\ Truthy(new_password)
    THEN LET permissions == form_permissions(new_role, boxes[1], boxes[2],
                                             boxes[3], boxes[4])
             r == add_user(U, f, new_username, new_password, new_role,
                           permissions, s.username[1], t)
         IN  [users |-> r.users, file |-> r.file, session |-> s, ret |-> r.ret]
    ELSE [users |-> U, file |-> f, session |-> s,
          ret |-> <<FALSE, "Please provide both username and password">>]

\* _render_manage_users: the users offered for selection
user_list(U) == {u \in DOMAIN U : u # "admin"}

\* _render_manage_users: the permissions assigned with a role
role_permissions(new_role_update) ==
    IF new_role_update = "admin" THEN AdminPerms
    ELSE IF new_role_update = "viewer" THEN ViewerPerms
    ELSE UserPerms

\* update_submitted passing the role alone to update_user
update_submitted_role_only(U, f, s, selected_user, new_role_update, new_password_update) ==
    LET update_data ==
            Kwargs(IF Truthy(new_password_update)
                   THEN Some(new_password_update) ELSE None,
                   Some(new_role_update),
                   None)
        r == update_user(U, f, selected_user, update_data)
    IN  [users |-> r.users, file |-> r.file,
         session |-> IF r.ret[1] /\ s.username = Some(selected_user)
                     THEN [s EXCEPT !.user_info = <<"ref", selected_user>>]
                     ELSE s,
         ret |-> r.ret]

\* _render_manage_users, "Update User" pressed
update_submitted(U, f, s, selected_user, new_role_update, new_password_update) ==
    LET update_data ==
            Kwargs(IF Truthy(new_password_update)
                   THEN Some(new_password_update) ELSE None,
                   Some(new_role_update),
                   Some(role_permissions(new_role_update)))
        r == update_user(U, f, selected_user, update_data)
    IN  [users |-> r.users, file |-> r.file,
         session |-> IF r.ret[1] /\ s.username = Some(selected_user)
                     THEN [s EXCEPT !.user_info = <<"ref", selected_user>>]
                     ELSE s,
         ret |-> r.ret]

\* _render_manage_users, "Deactivate" or "Activate" pressed
status_submitted(U, f, s, selected_user) ==
    LET r == IF Get(U[selected_user], "active", FALSE)
             THEN deactivate_user(U, f, selected_user)
             ELSE activate_user(U, f, selected_user)
    IN  [users |-> r.users, file |-> r.file, session |-> s, ret |-> r.ret]

\* _render_manage_users, "Delete" pressed
delete_submitted(U, f, s, selected_user) ==
    IF selected_user \in s.confirm_delete
    THEN LET r == delete_user(U, f, selected_user, s.username[1])
         IN  IF r.ret[1]
             THEN [users |-> r.users, file |-> r.file,
                   session |-> [Unlink(U, s, selected_user) EXCEPT
                                   !.confirm_delete = @ \ {selected_user}],
                   ret |-> r.ret]
             ELSE [users |-> r.users, file |-> r.file, session |-> s,
                   ret |-> r.ret]
    ELSE [users |-> U, file |-> f,
          session |-> [s EXCEPT !.confirm_delete = @ \cup {selected_user}],
          ret |-> <<FALSE, "Click 'Delete' again to confirm">>]

CommitPage(r, l) == Commit(r, r.session, l)

\* the login form is shown to a session that is not authenticated
Login(username, password) ==
    /\ ~ session.authenticated
    /\ LET r == login_submitted(users, file, session, username, password, now)
       IN  CommitPage(r, Observe("login",
                                 [username |-> username, password |-> password],
                                 r.ret))

\* the logout button is shown to an authenticated session
Logout ==
    /\ session.authenticated
    /\ Commit([users |-> users, file |-> file], logout_user(session),
              Observe("logout", NoArgs, <<TRUE, "">>))

\* the user management page opened by a session the guard refuses
AccessDenied ==
    /\ access_denied(users, session)
    /\ Commit([users |-> users, file |-> file], session,
              Observe("user_management", NoArgs,
                      <<FALSE, "Access denied. Admin privileges required.">>))

AddUserForm(new_username, new_password, new_role, boxes) ==
    /\ ~ access_denied(users, session)
    /\ LET r == add_user_submitted(users, file, session, new_username,
                                   new_password, new_role, boxes, now)
       IN  CommitPage(r, Observe("add_user_form",
                                 [username |-> new_username], r.ret))

UpdateForm(selected_user, new_role_update, new_password_update) ==
    /\ ~ access_denied(users, session)
    /\ selected_user \in user_list(users)
    /\ LET r == update_submitted(users, file, session, selected_user,
                                 new_role_update, new_password_update)
       IN  CommitPage(r, Observe("update_form",
                                 [username |-> selected_user,
                                  role |-> new_role_update], r.ret))

StatusForm(selected_user) ==
    /\ ~ access_denied(users, session)
    /\ selected_user \in user_list(users)
    /\ LET r == status_submitted(users, file, session, selected_user)
       IN  CommitPage(r, Observe("status_form",
                                 [username |-> selected_user], r.ret))

DeleteForm(selected_user) ==
    /\ ~ access_denied(users, session)
    /\ selected_user \in user_list(users)
    /\ LET r == delete_submitted(users, file, session, selected_user)
       IN  CommitPage(r, Observe("delete_form",
                                 [username |-> selected_user], r.ret))

\* the checkbox settings tried: the form's defaults, and the other way round
BoxChoices == { <<TRUE, TRUE, FALSE, TRUE>>, <<FALSE, FALSE, TRUE, TRUE>> }

NextUI ==
    \/ Tick
    \/ \E u \in UserNames \cup {""}, p \in FormInputs : Login(u, p)
    \/ Logout
    \/ AccessDenied
    \/ \E u \in UserNames \cup {""}, p \in FormInputs, r \in Roles,
          b \in BoxChoices : AddUserForm(u, p, r, b)
    \/ \E u \in UserNames, r \in Roles, p \in FormInputs : UpdateForm(u, r, p)
    \/ \E u \in UserNames : StatusForm(u)
    \/ \E u \in UserNames : DeleteForm(u)

\* one session at the pages while other callers use the same UserManager
\* object directly
NextShared ==
    \/ Construct
    \/ \E u \in UserNames, p \in FormInputs : Login(u, p)
    \/ Logout
    \/ AccessDenied
    \/ \E u \in UserNames, r \in Roles : UpdateForm(u, r, "")
    \/ \E u \in UserNames : StatusForm(u)
    \/ \E u \in UserNames : DeleteForm(u)
    \/ \E a \in AddPayloads : AddUser("alice", "pw1", a[1], a[2], a[3])
    \/ \E u \in UserNames, rp \in UpdatePayloads :
          UpdateUser(u, CallKwargs(None, Some(rp)))
    \/ \E u \in UserNames, q \in UserNames : DeleteUser(u, q)
    \/ \E u \in UserNames : DeactivateUser(u)
    \/ \E u \in UserNames : ActivateUser(u)

\* the environments a process is started with: nothing set, another salt,
\* another default admin password
Environs ==
    { EmptyDict,
      [k \in {"PASSWORD_SALT"} |-> "pepper"],
      [k \in {"DEFAULT_ADMIN_PASSWORD"} |-> "pw1"] }

\* a first run in any of the environments
InitConfig == \E env \in Environs : InitIn(AbsentFile, env)

\* the process is stopped and started again with environment env: config.py
\* is imported anew and a new UserManager loads the existing file, in a new
\* session
Restart(env) ==
    /\ file.exists
    /\ environ' = env
    /\ now' = now
    /\ file' = file
    /\ users' = (load_users(file, now).users)'
    /\ session' = EmptySession
    /\ other' = other
    /\ last' = Observe("restart", NoArgs, <<TRUE, "">>)

NextConfig ==
    \/ Next
    \/ \E env \in Environs : Restart(env)

\* direct calls of the UserManager
Spec == Init /\ [][Next]_vars
SpecEmptyFile == InitEmptyFile /\ [][Next]_vars
SpecMalformedFile == InitMalformedFile /\ [][Next]_vars

\* direct calls over a backing file that cannot be written
SpecReadOnly == InitReadOnly /\ [][Next]_vars

\* direct calls, with restarts under changed configuration
SpecConfig == InitConfig /\ [][NextConfig]_vars

\* one session at the pages
SpecUI == Init /\ [][NextUI]_vars

\* one session at the pages beside direct callers of the same UserManager
SpecShared == Init /\ [][NextShared]_vars

-----------------------------------------------------------------------------
(* Two UserManager objects over the same backing file *)

\* a first run wrote the file, then two UserManager objects were constructed
\* over it: `users` is the mapping of the first, `other` of the second
InitTwoInstances ==
    /\ environ = EmptyDict
    /\ now     = 1
    /\ LET seeded == load_users(AbsentFile, 1)
           first  == load_users(seeded.file, 1)
           second == load_users(first.file, 1)
       IN  /\ users = first.users
           /\ other = Some(second.users)
           /\ file  = second.file
    /\ session = EmptySession
    /\ last    = Observe("UserManager", NoArgs, <<TRUE, "">>)

\* a method of the second object returned r
CommitOther(r, l) ==
    /\ other' = Some(r.users)
    /\ file'  = r.file
    /\ last'  = l
    /\ UNCHANGED <<users, session, now, environ>>

OtherAuthenticateUser(username, password) ==
    LET r == authenticate_user(other[1], file, username, password, now)
    IN  CommitOther(r, Observe("other.authenticate_user",
                               [username |-> username, password |-> password],
                               r.ret))

OtherAddUser(username, password, role, permissions, created_by) ==
    LET r == add_user(other[1], file, username, password, role, permissions,
                      created_by, now)
    IN  CommitOther(r, Observe("other.add_user",
                               [username |-> username, password |-> password,
                                role |-> role, permissions |-> permissions,
                                created_by |-> created_by], r.ret))

OtherDeleteUser(username, requester) ==
    LET r == delete_user(other[1], file, username, requester)
    IN  CommitOther(r, Observe("other.delete_user",
                               [username |-> username, requester |-> requester],
                               r.ret))

OtherDeactivateUser(username) ==
    LET r == deactivate_user(other[1], file, username)
    IN  CommitOther(r, Observe("other.deactivate_user",
                               [username |-> username], r.ret))

\* calls on either object, in any order
NextTwoInstances ==
    \/ \E u \in UserNames, p \in Passwords : AuthenticateUser(u, p)
    \/ \E a \in AddPayloads : AddUser("alice", "pw1", a[1], a[2], a[3])
    \/ DeleteUser("alice", "admin")
    \/ DeactivateUser("alice")
    \/ \E u \in UserNames, p \in Passwords : OtherAuthenticateUser(u, p)
    \/ \E a \in AddPayloads : OtherAddUser("alice", "pw1", a[1], a[2], a[3])
    \/ OtherDeleteUser("alice", "admin")
    \/ OtherDeactivateUser("alice")

SpecTwoInstances == InitTwoInstances /\ [][NextTwoInstances]_vars

-----------------------------------------------------------------------------
(* Data freshness (database/db_manager.py) *)

\* A DataFrame is represented by its index: the sequence of the rows'
\* timestamps, ascending as the query sorts them.  A timestamp is an instant
\* in seconds; fetch_data_from_db makes the index timezone-aware, and
\* tz_convert keeps the instant.

\* the instants rows are stamped with, and the instants the clock is read at
TimeStamps == {399, 400, 401, 1000}
ClockReadings == {1000}

\* the indexes of at most MaxRows rows
Frames ==
    UNION { { s \in [1..n -> TimeStamps] : \A i \in 1..n-1 : s[i] < s[i+1] }
            : n \in 0..MaxRows }

\* what query_data_frame does: it raises, or it returns rows
QueryOutcomes ==
    { [raises |-> TRUE, rows |-> <<>>] }
        \cup { [raises |-> FALSE, rows |-> s] : s \in Frames }

\* fetch_data_from_db: the pair (DataFrame, error) for one query outcome
fetch_data_from_db(outcome) ==
    IF outcome.raises
    THEN <<(<<>>), Some("Database query error")>>
    ELSE IF outcome.rows = <<>>
    THEN <<(<<>>), Some("No data available")>>
    ELSE <<outcome.rows, None>>

\* df.empty
empty(df) == Len(df) = 0

\* max(xs) of a non-empty sequence
max(xs) == CHOOSE m \in {xs[i] : i \in 1..Len(xs)} :
               \A i \in 1..Len(xs) : xs[i] <= m

\* check_data_freshness without the test for all feeds being empty
check_data_freshness_unguarded(df_list, t) ==
    LET with_rows    == SelectSeq(df_list, LAMBDA df : ~ empty(df))
        latest_times == [i \in 1..Len(with_rows) |-> max(with_rows[i])]
    IN  IF latest_times = <<>>
        THEN <<FALSE, <<"No valid timestamps found">>>>
        ELSE LET latest_time == max(latest_times)
                 time_diff   == t - latest_time
             IN  IF time_diff > 600
                 THEN <<FALSE, <<"Last update", latest_time, time_diff>>>>
                 ELSE <<TRUE, <<"Live data", latest_time>>>>

\* check_data_freshness calling data of exactly ten minutes stale
check_data_freshness_strict(df_list, t) ==
    IF ~ \E i \in 1..Len(df_list) : ~ empty(df_list[i])
    THEN <<FALSE, <<"No data available">>>>
    ELSE LET with_rows    == SelectSeq(df_list, LAMBDA df : ~ empty(df))
             latest_times == [i \in 1..Len(with_rows) |-> max(with_rows[i])]
             latest_time  == max(latest_times)
             time_diff    == t - latest_time
         IN  IF time_diff >= 600
             THEN <<FALSE, <<"Last update", latest_time, time_diff>>>>
             ELSE <<TRUE, <<"Live data", latest_time>>>>

\* check_data_freshness(df_list), the clock read as t: the pair (is_fresh,
\* message), the message with the values it is formatted from
check_data_freshness(df_list, t) ==
    IF ~ \E i \in 1..Len(df_list) : ~ empty(df_list[i])
    THEN <<FALSE, <<"No data available">>>>
    ELSE LET with_rows    == SelectSeq(df_list, LAMBDA df : ~ empty(df))
             latest_times == [i \in 1..Len(with_rows) |-> max(with_rows[i])]
         IN  IF latest_times = <<>>
             THEN <<FALSE, <<"No valid timestamps found">>>>
             ELSE LET latest_time == max(latest_times)
                      time_diff   == t - latest_time
                  IN  IF time_diff > 600
                      THEN <<FALSE, <<"Last update", latest_time, time_diff>>>>
                      ELSE <<TRUE, <<"Live data", latest_time>>>>

\* the environments the dashboard is started with: threshold not set, set
ThresholdEnvirons ==
    { EmptyDict, [k \in {"DATA_FRESHNESS_THRESHOLD"} |-> "300"] }

\* the dashboard has started and has fetched its three feeds
InitFreshness ==
    \E env \in ThresholdEnvirons :
    \E q_env \in QueryOutcomes, q_class \in QueryOutcomes, q_sec \in QueryOutcomes :
       LET env_   == fetch_data_from_db(q_env)
           class_ == fetch_data_from_db(q_class)
           sec    == fetch_data_from_db(q_sec)
       IN  /\ environ = env
           /\ now     = 1
           /\ LET r == load_users(AbsentFile, 1)
              IN  /\ users = r.users
                  /\ file  = r.file
           /\ session = EmptySession
           /\ other   = None
           /\ last    = Observe("fetch_data_from_db",
                                [df_list |-> <<env_[1], class_[1], sec[1]>>,
                                 errors  |-> <<env_[2], class_[2], sec[2]>>],
                                <<TRUE, <<"fetched">>>>)

\* the freshness of the fetched feeds is evaluated, the clock read as t
CheckDataFreshness(t) ==
    /\ last.op = "fetch_data_from_db"
    /\ last' = Observe("check_data_freshness",
                       [df_list |-> last.args.df_list,
                        errors  |-> last.args.errors,
                        now     |-> t],
                       check_data_freshness(last.args.df_list, t))
    /\ UNCHANGED <<users, file, session, now, environ, other>>

NextFreshness == \E t \in ClockReadings : CheckDataFreshness(t)

\* the dashboard refreshing its data
SpecFreshness == InitFreshness /\ [][NextFreshness]_vars

-----------------------------------------------------------------------------
(* Properties *)

\* the credentials (username, password) are valid in the mapping U: the
\* username is stored, its account is active and the stored hash is the hash
\* of the password
Valid(U, username, password) ==
    /\ username \in DOMAIN U
    /\ U[username]["active"] = TRUE
    /\ U[username]["password"] = hash_password(password)

\* the step is a call of op: every step leaves its own observation
Called(op) == last'.op = op

\* C1: authenticate_user(username, password) returns (True, the account
\* record) if and only if the username is in the store, the account is
\* active and the stored hash equals the hash of the password; in every
\* other case it returns (False, None).
C1_AuthenticateIffValid ==
    [][Called("authenticate_user") =>
          LET u == last'.args.username
              p == last'.args.password
          IN  IF Valid(users, u, p)
              THEN /\ u \in DOMAIN users'
                   /\ last'.ret = <<TRUE, Some(users'[u])>>
              ELSE last'.ret = <<FALSE, None>>]_vars

\* an authentication of alice has succeeded
C1_Witness ==
    /\ last.op = "authenticate_user"
    /\ last.args.username = "alice"
    /\ last.ret[1] = TRUE

\* the step deactivates or deletes the account of u or updates its password
TouchesCredentials(u) ==
    /\ last'.args.username = u
    /\ \/ Called("deactivate_user")
       \/ Called("delete_user")
       \/ Called("update_user") /\ "password" \in DOMAIN last'.args.kwargs

\* C2: a pair accepted by add_user authenticates later, provided the account
\* was not deactivated or deleted and its password not updated in between;
\* the authentication sets last_login, absent until then, to the time of the
\* call and writes it to the backing file.  Stated step by step: add_user
\* leaves the pair valid with last_login absent; every step but those three
\* keeps a valid pair valid; authenticate_user on a valid pair succeeds,
\* stamps last_login and saves it.
C2_CreateThenAuthenticate ==
    [][/\ Called("add_user") /\ last'.ret[1] = TRUE
            => /\ Valid(users', last'.args.username, last'.args.password)
               /\ users'[last'.args.username]["last_login"] = None
       /\ \A u \in UserNames, p \in Passwords :
            Valid(users, u, p) /\ ~ TouchesCredentials(u)
                => Valid(users', u, p)
       /\ Called("authenticate_user")
          /\ Valid(users, last'.args.username, last'.args.password)
            => LET u == last'.args.username
               IN  /\ last'.ret[1] = TRUE
                   /\ users'[u]["last_login"] = isoformat(now)
                   /\ users'[u]["last_login"] # None
                   /\ file'.exists /\ file'.wellformed
                   /\ u \in DOMAIN file'.doc
                   /\ file'.doc[u]["last_login"] = isoformat(now)]_vars

\* alice, created and never logged in before, has authenticated, and the
\* file holds her last_login
C2_Witness ==
    /\ last.op = "authenticate_user"
    /\ last.args.username = "alice"
    /\ last.ret[1] = TRUE
    /\ "alice" \in DOMAIN users
    /\ users["alice"]["last_login"] = isoformat(now)
    /\ users["alice"]["created_at"] # isoformat(now)
    /\ file.wellformed
    /\ file.doc = users

\* what a refused login reports: the pair authenticate_user returned and the
\* message
LoginFailure ==
    <<FALSE, "Invalid credentials or inactive account", <<FALSE, None>>>>

Unknown(U, username) == username \notin DOMAIN U
Inactive(U, username, password) ==
    /\ username \in DOMAIN U
    /\ U[username]["active"] = FALSE
    /\ U[username]["password"] = hash_password(password)
WrongPassword(U, username, password) ==
    /\ username \in DOMAIN U
    /\ U[username]["password"] # hash_password(password)

\* C3: a login with the correct password of an inactive account fails, and
\* what it reports (the pair returned and the message shown) is what a login
\* with a wrong password and a login with an unknown username report.  (A
\* form with an empty field is refused before any account is looked at.)
C3_LoginFailureUniform ==
    [][Called("login") =>
          LET u == last'.args.username
              p == last'.args.password
          IN  Truthy(u) /\ Truthy(p)
              /\ (Inactive(users, u, p) \/ WrongPassword(users, u, p)
                    \/ Unknown(users, u))
                 => last'.ret = LoginFailure]_vars

\* a login with the correct password of deactivated alice was refused
C3_Witness ==
    /\ last.op = "login"
    /\ last.args.username = "alice"
    /\ Inactive(users, "alice", last.args.password)
    /\ last.ret[1] = FALSE

\* C4: in every state reachable from a bootstrapped store the account
\* "admin" is in the store and in the backing file.
C4_AdminAlwaysPresent ==
    /\ "admin" \in DOMAIN users
    /\ file.exists /\ file.wellformed
    /\ "admin" \in DOMAIN file.doc

\* C5: delete_user("admin", requester) returns the protected-account result
\* for every requester in every store state and leaves the store unchanged.
C5_DeleteAdminProtected ==
    [][Called("delete_user") /\ last'.args.username = "admin"
            => /\ last'.ret = <<FALSE, "Cannot delete admin user">>
               /\ users' = users
               /\ file' = file]_vars

\* C6: for an existing account X other than admin, delete_user(X, X) returns
\* the self-deletion result, which no other case of delete_user returns, and
\* leaves the store and X unchanged.
C6_SelfDeletionRefused ==
    [][Called("delete_user") =>
          LET u == last'.args.username
              q == last'.args.requester
              self == u \in DOMAIN users /\ u # "admin" /\ u = q
          IN  /\ self <=> last'.ret = <<FALSE, "Cannot delete your own account">>
              /\ self => users' = users /\ file' = file]_vars

\* alice asked for her own deletion and is still there
C6_Witness ==
    /\ last.op = "delete_user"
    /\ last.args.username = "alice"
    /\ last.args.requester = "alice"
    /\ "alice" \in DOMAIN users
    /\ last.ret[1] = FALSE

\* C7: add_user on a stored username returns the already-exists result and
\* changes nothing; on a new username it inserts a record with active true,
\* last_login absent and the supplied creator, role and permissions, and
\* changes no other account.
C7_AddUser ==
    [][Called("add_user") =>
          LET a == last'.args
              u == a.username
          IN  IF u \in DOMAIN users
              THEN /\ last'.ret = <<FALSE, "User already exists">>
                   /\ users' = users
              ELSE /\ last'.ret[1] = TRUE
                   /\ DOMAIN users' = DOMAIN users \cup {u}
                   /\ users'[u]["active"] = TRUE
                   /\ users'[u]["last_login"] = None
                   /\ users'[u]["created_by"] = a.created_by
                   /\ users'[u]["role"] = a.role
                   /\ users'[u]["permissions"] = a.permissions
                   /\ \A v \in DOMAIN users : users'[v] = users[v]]_vars

\* alice was added beside admin with the creator, role and permissions given
C7_Witness ==
    /\ last.op = "add_user"
    /\ last.args.username = "alice"
    /\ last.ret[1] = TRUE
    /\ DOMAIN users = {"admin", "alice"}
    /\ users["alice"]["created_by"] = last.args.created_by

AskedPermissions == PermissionTags \cup {"reports"}

\* the rule of the specification: p is in the list or all_sensors is
Granted(permissions, p) == In(p, permissions) \/ In("all_sensors", permissions)

\* C9: UserManager.check_permission(u, p) is false for an unknown u and
\* otherwise true exactly when p or all_sensors is in u's permissions; the
\* session's check_permission(p) is false when the session is not
\* authenticated and otherwise applies the same rule to the session's
\* permissions; right after a successful login of u the two agree for every
\* p.
C9_PermissionChecksAgree ==
    /\ \A u \in UserNames \cup {"nobody"}, p \in AskedPermissions :
          UserManager_check_permission(users, u, p)
             = (u \in DOMAIN users /\ Granted(users[u]["permissions"], p))
    /\ \A p \in AskedPermissions :
          check_permission(users, session, p)
             = (session.authenticated
                /\ Granted(Deref(users, session.user_info)["permissions"], p))
    /\ last.op = "login" /\ last.ret[1] = TRUE
          => \A p \in AskedPermissions :
                check_permission(users, session, p)
                   = UserManager_check_permission(users, last.args.username, p)

\* alice has just logged in with permissions that lack all_sensors
C9_Witness ==
    /\ last.op = "login"
    /\ last.args.username = "alice"
    /\ last.ret[1] = TRUE
    /\ session.authenticated
    /\ ~ In("all_sensors", users["alice"]["permissions"])
    /\ check_permission(users, session, "dashboard")
    /\ ~ check_permission(users, session, "user_management")

\* C10: all_sensors grants only sensor-scoped checks: for an account or a
\* session whose permissions hold all_sensors but not user_management
\* (dashboard), the check for user_management (dashboard) is false.
C10_AllSensorsIsSensorScoped ==
    /\ \A u \in DOMAIN users, p \in {"user_management", "dashboard"} :
          In("all_sensors", users[u]["permissions"])
          /\ ~ In(p, users[u]["permissions"])
             => ~ UserManager_check_permission(users, u, p)
    /\ \A p \in {"user_management", "dashboard"} :
          session.authenticated
          /\ In("all_sensors", Deref(users, session.user_info)["permissions"])
          /\ ~ In(p, Deref(users, session.user_info)["permissions"])
             => ~ check_permission(users, session, p)

\* C11: a successful login sets authenticated, username and the account
\* record of the session together; a failed login (unknown user, inactive
\* account, wrong password or an empty field) leaves every session field,
\* every account record and the backing file unchanged.
C11_LoginAtomic ==
    [][Called("login") =>
          LET u == last'.args.username
          IN  IF last'.ret[1]
              THEN /\ session'.authenticated = TRUE
                   /\ session'.username = Some(u)
                   /\ session'.user_info # None
                   /\ Deref(users', session'.user_info) = users'[u]
              ELSE /\ session' = session
                   /\ users' = users
                   /\ file' = file]_vars

\* alice, stored and active, was refused with a wrong password, and the
\* session is still not authenticated
C11_Witness ==
    /\ last.op = "login"
    /\ last.args.username = "alice"
    /\ WrongPassword(users, "alice", last.args.password)
    /\ Truthy(last.args.password)
    /\ users["alice"]["active"]
    /\ last.ret[1] = FALSE
    /\ ~ session.authenticated

\* the three fields of the session are cleared
Cleared(s) ==
    /\ s.authenticated = FALSE
    /\ s.username = None
    /\ s.user_info = None

\* C12: logout_user clears the session fields (authenticated false, username
\* and account record absent) whatever the session held before, a second
\* logout_user yields the state of the first, and a logout changes neither
\* the accounts nor the backing file.
C12_LogoutClearsSession ==
    [][/\ \A s \in {session, session'} :
             /\ Cleared(logout_user(s))
             /\ logout_user(logout_user(s)) = logout_user(s)
       /\ Called("logout") =>
             /\ session' = logout_user(session)
             /\ Cleared(session')
             /\ users' = users
             /\ file' = file]_vars

\* a session has logged out after alice had logged in
C12_Witness ==
    /\ last.op = "logout"
    /\ "alice" \in DOMAIN users
    /\ users["alice"]["last_login"] # None
    /\ Cleared(session)

\* the operations that change the mapping when they succeed
Mutating ==
    {"add_user", "update_user", "activate_user", "deactivate_user",
     "delete_user", "authenticate_user"}

\* C13: provided file writes succeed, after every completed add_user,
\* update_user, activate_user, deactivate_user, delete_user and successful
\* authenticate_user the backing file holds exactly the in-memory mapping.
C13_PersistedAfterMutation ==
    [][last'.op \in Mutating /\ last'.ret[1] = TRUE /\ file.writable
          => /\ file'.exists
             /\ file'.wellformed
             /\ file'.doc = users']_vars

\* activate_user succeeded for alice and the file holds her record
C13_Witness ==
    /\ last.op = "activate_user"
    /\ last.args.username = "alice"
    /\ last.ret[1] = TRUE
    /\ file.wellformed
    /\ "alice" \in DOMAIN file.doc
    /\ file.doc["alice"]["active"] = TRUE
    /\ file.doc = users

\* the mapping U holds exactly the account admin as bootstrap seeds it
OnlySeededAdmin(U) ==
    /\ DOMAIN U = {"admin"}
    /\ U["admin"]["role"] = "admin"
    /\ U["admin"]["active"] = TRUE
    /\ U["admin"]["created_by"] = "system"
    /\ U["admin"]["last_login"] = None
    /\ \A p \in PermissionTags : In(p, U["admin"]["permissions"])

\* the file is absent or holds an empty mapping
AbsentOrEmpty(f) == ~ f.exists \/ (f.wellformed /\ f.doc = EmptyDict)

\* C14: constructing the store when the backing file is absent or holds an
\* empty mapping gives a store with exactly the account admin (role admin,
\* active, created by system, last_login absent, all four permission tags),
\* written to the backing file.
C14_BootstrapSeedsAdmin ==
    [][Called("UserManager") /\ AbsentOrEmpty(file)
          => /\ OnlySeededAdmin(users')
             /\ file'.exists /\ file'.wellformed
             /\ file'.doc = users']_vars

\* C15: constructing the store over a backing file that holds accounts loads
\* exactly those accounts, does not write the file and does not reset or
\* re-create admin; constructing it twice in a row gives the store and file
\* of constructing it once.
C15_BootstrapIdempotent ==
    [][Called("UserManager") =>
          /\ file.exists /\ file.wellformed /\ file.doc # EmptyDict
                => /\ users' = file.doc
                   /\ file' = file
          /\ LET once  == load_users(file, now)
                 twice == load_users(once.file, now)
             IN  /\ twice = once
                 /\ users' = once.users
                 /\ file' = once.file]_vars

\* the store was constructed again over a file holding alice and an admin
\* who had logged in, and both are as they were
C15_Witness ==
    /\ last.op = "UserManager"
    /\ DOMAIN users = {"admin", "alice"}
    /\ users["admin"]["last_login"] # None
    /\ file.doc = users

\* C16: after a bootstrap from an absent store, and while admin's password
\* is the seeded one, authenticate_user("admin", p) succeeds exactly for p
\* equal to the configured default_admin_password.
C16_SeededPasswordIsConfigured ==
    [][LET seeded == /\ "admin" \in DOMAIN users
                     /\ users["admin"]["password"] = DefaultAdmin(now)["password"]
       IN  Called("authenticate_user") /\ last'.args.username = "admin" /\ seeded
              => (last'.ret[1] = TRUE
                    <=> last'.args.password = APP_CONFIG["default_admin_password"])]_vars

\* C17: the password hash depends on the configured password_salt: when a
\* restart changes the configured salt, no password that was valid for an
\* account before is valid for it afterwards.
C17_HashUsesConfiguredSalt ==
    [][Called("restart")
       /\ (USER_CONFIG["password_salt"])' # USER_CONFIG["password_salt"]
          => \A u \in UserNames, p \in Passwords :
                Valid(users, u, p) => ~ (Valid(users, u, p))']_vars

SuccessMessages ==
    {"User created successfully", "User updated successfully",
     "User deleted successfully", "User deactivated", "User activated"}

\* the observation l reports the ordinary success of its operation
OrdinarySuccess(l) ==
    IF l.op = "authenticate_user"
    THEN l.ret[1] = TRUE
    ELSE l.ret[1] = TRUE /\ l.ret[2] \in SuccessMessages

\* C19: when the backing file cannot be written during a mutating operation
\* (add_user, update_user, activate_user, deactivate_user, delete_user,
\* successful authenticate_user), the result the operation returns is not its
\* ordinary success result.
C19_WriteFailureSurfaced ==
    [][last'.op \in Mutating /\ ~ file.writable /\ users' # users
          => ~ OrdinarySuccess(last')]_vars

AllStamps(df_list) ==
    UNION { {df_list[i][j] : j \in 1..Len(df_list[i])} : i \in 1..Len(df_list) }

\* the age of the newest row of df_list at the clock reading t
Age(df_list, t) ==
    t - (CHOOSE m \in AllStamps(df_list) : \A x \in AllStamps(df_list) : x <= m)

\* C21: when every feed passed to check_data_freshness is empty, feeds of
\* queries that raised included, the result is (False, "No data available").
C21_AllFeedsEmpty ==
    [][Called("check_data_freshness")
       /\ AllStamps(last'.args.df_list) = {}
          => last'.ret = <<FALSE, <<"No data available">>>>]_vars

\* freshness was evaluated over three empty feeds, one of a query that raised
C21_Witness ==
    /\ last.op = "check_data_freshness"
    /\ \A i \in 1..3 : empty(last.args.df_list[i])
    /\ last.args.errors[1] = Some("Database query error")
    /\ last.args.errors[2] = Some("No data available")
    /\ last.ret = <<FALSE, <<"No data available">>>>

\* C22: with at least one non-empty feed, check_data_freshness returns fresh
\* exactly when the age of the newest timestamp over all feeds is at most 600
\* seconds: ages 599 and 600 are fresh, 601 is stale, and one fresh feed
\* makes the result fresh whatever the other feeds hold.
C22_FreshIffNewestWithinThreshold ==
    [][Called("check_data_freshness")
       /\ AllStamps(last'.args.df_list) # {}
          => LET age == Age(last'.args.df_list, last'.args.now)
             IN  /\ last'.ret[1] = (age <= 600)
                 /\ age \in {599, 600} => last'.ret[1] = TRUE
                 /\ age = 601 => last'.ret[1] = FALSE
                 /\ (\E i \in 1..3 :
                        /\ ~ empty(last'.args.df_list[i])
                        /\ last'.args.now - max(last'.args.df_list[i]) <= 600)
                       => last'.ret[1] = TRUE]_vars

\* the newest row is exactly 600 seconds old, beside a feed 601 seconds old
\* and an empty one, and the data is fresh
C22_Witness ==
    /\ last.op = "check_data_freshness"
    /\ last.args.df_list = << <<399>>, <<>>, <<400>> >>
    /\ last.args.now = 1000
    /\ last.ret[1] = TRUE

\* C23: check_data_freshness reports data stale exactly when its age exceeds
\* the configured data_freshness_threshold.
C23_ThresholdIsConfigured ==
    [][Called("check_data_freshness")
       /\ AllStamps(last'.args.df_list) # {}
          => (last'.ret[1] = FALSE
                <=> Age(last'.args.df_list, last'.args.now)
                       > APP_CONFIG["data_freshness_threshold"])]_vars

\* the operations of the user management page
ManagementForms == {"add_user_form", "update_form", "status_form", "delete_form"}

\* the account record of session s has role admin
IsAdminSession(U, s) ==
    /\ s.user_info # None
    /\ Get(Deref(U, s.user_info), "role", "") = "admin"

\* C24: the operations of the user management page (add, update,
\* activate/deactivate, delete) are performed only for a session whose
\* account record has role admin; for a session without a record or with
\* any other role the page returns the access-denied result and changes
\* neither the accounts nor the file.
C24_ManagementAdminOnly ==
    [][/\ last'.op \in ManagementForms => IsAdminSession(users, session)
       /\ Called("user_management")
             => /\ ~ IsAdminSession(users, session)
                /\ last'.ret = <<FALSE, "Access denied. Admin privileges required.">>
       /\ ~ IsAdminSession(users, session) /\ last'.op # "login"
             => /\ users' = users
                /\ file' = file]_vars

\* alice, logged in with role viewer, was refused the user management page
C24_Witness ==
    /\ last.op = "user_management"
    /\ session.authenticated
    /\ session.username = Some("alice")
    /\ Deref(users, session.user_info)["role"] = "viewer"
    /\ last.ret[1] = FALSE

\* the permission set that goes with a role
RoleMapping(role) ==
    CASE role = "admin"  -> {"dashboard", "sensors", "all_sensors", "user_management"}
      [] role = "viewer" -> {"dashboard", "sensors"}
      [] role = "user"   -> {"dashboard", "sensors", "all_sensors"}

\* the set of the elements of list lst
Elements(lst) == {lst[i] : i \in 1..Len(lst)}

C27_SessionFieldsAgree ==
    /\ session.authenticated = (session.username # None)
    /\ session.authenticated = (session.user_info # None)

\* alice's session holds all three fields
C27_Witness ==
    /\ session.authenticated
    /\ session.username = Some("alice")
    /\ session.user_info # None
    /\ Deref(users, session.user_info)["created_by"] = "admin"

\* C29: in every store state reached from bootstrap through the forms of the
\* user management page, every account whose permissions contain
\* user_management has role admin.
C29_UserManagementImpliesAdmin ==
    \A u \in DOMAIN users :
        In("user_management", users[u]["permissions"])
            => users[u]["role"] = "admin"

\* alice was given role admin with user_management through the add-user form
C29_Witness ==
    /\ "alice" \in DOMAIN users
    /\ users["alice"]["role"] = "admin"
    /\ users["alice"]["permissions"] = <<"user_management", "all_sensors">>

\* what a session's permission checks and its role read
SessionView(U, s) ==
    [permissions |-> {p \in PermissionTags : check_permission(U, s, p)},
     role        |-> IF s.user_info = None
                     THEN None
                     ELSE Some(Deref(U, s.user_info)["role"])]

\* C26: the permission set of a session is a snapshot taken at login: an
\* update of an account, whether by a direct call or through the update
\* form, changes neither the results of check_permission nor the role of a
\* session that is logged in.
C26_SessionIsSnapshot ==
    [][last'.op \in {"update_user", "update_form"} /\ session.authenticated
          => SessionView(users', session') = SessionView(users, session)]_vars

\* C28: deactivating or deleting an account, by a direct call or through the
\* page, leaves every logged-in session authenticated under the same
\* username, and its role and check_permission results as they were.
C28_DeactivateDeleteKeepSessions ==
    [][last'.op \in {"deactivate_user", "delete_user",
                     "status_form", "delete_form"} /\ session.authenticated
          => /\ session'.authenticated
             /\ session'.username = session.username
             /\ SessionView(users', session') = SessionView(users, session)]_vars

\* alice's account has just been deleted while her session is logged in
C28_Witness ==
    /\ last.op = "delete_user"
    /\ last.ret[1] = TRUE
    /\ last.args.username = "alice"
    /\ session.authenticated
    /\ session.username = Some("alice")
    /\ "alice" \notin DOMAIN users
    /\ check_permission(users, session, "sensors")

\* the calls that save on success, on the first and on the second object
SavingCalls == {"authenticate_user", "add_user", "delete_user", "deactivate_user"}
OtherSavingCalls == {"other.authenticate_user", "other.add_user",
                     "other.delete_user", "other.deactivate_user"}

\* C30: with two credential-store instances over one file, every successful
\* mutation or login rewrites the whole file from the mapping of the instance
\* that made it, whatever the file held; so a change made through one
\* instance can be reverted in the file by the other (the lost update is the
\* state of C30_Witness).
C30_SaveRewritesFromOwnMapping ==
    [][/\ last'.op \in SavingCalls /\ last'.ret[1] = TRUE
             => file'.doc = users'
       /\ last'.op \in OtherSavingCalls /\ last'.ret[1] = TRUE
             => file'.doc = other'[1]]_vars

\* alice was created through the first instance and saved; a later
\* successful login on the second instance has written the file without her
C30_Witness ==
    /\ "alice" \in DOMAIN users
    /\ last.op = "other.authenticate_user"
    /\ last.ret[1] = TRUE
    /\ "alice" \notin DOMAIN other[1]
    /\ "alice" \notin DOMAIN file.doc

====
